---- MODULE Spec2Model ----
(***************************************************************************)
(* Model of the falling-block game core of src/tower/main.go: the Game     *)
(* struct, its methods (popBag, spawn, collides, lockPiece, clearLines,    *)
(* tryMove, tryRotate, hardDrop, ghostPieceY) and the per-frame handler    *)
(* Update.  Methods are operators on a record g holding the Game fields;   *)
(* the one handler, Update, is the action of the state machine.            *)
(***************************************************************************)
EXTENDS Integers, Sequences, FiniteSets, TLC

(* ------------------------------ constants ------------------------------ *)

boardW == 10

boardH == 20

NumKinds == 7

(* The seed the recorded game below was played with. *)
RecordedSeed == 10

(* Seeds tried for rand.NewSource(time.Now().UnixNano()): RecordedSeed    *)
(* and 1..MaxSeed.                                                         *)
MaxSeed == 3

Seeds == {RecordedSeed} \cup 1..MaxSeed

(* Number of arbitrary input frames explored after leaving the recorded    *)
(* play-through (see Next).                                                *)
MaxFree == 1

Last(s) == s[Len(s)]

(* pieceShapes[kind][rot] -> 4 points <<x, y>> in a 4x4 bounding box.      *)
(* Go indexes from 0; the tuples below are indexed from 1, see shapeOf.    *)
pieceShapes ==
  << (* I *)
     << << <<0,1>>, <<1,1>>, <<2,1>>, <<3,1>> >>,
        << <<2,0>>, <<2,1>>, <<2,2>>, <<2,3>> >>,
        << <<0,2>>, <<1,2>>, <<2,2>>, <<3,2>> >>,
        << <<1,0>>, <<1,1>>, <<1,2>>, <<1,3>> >> >>,
     (* O *)
     << << <<1,1>>, <<2,1>>, <<1,2>>, <<2,2>> >>,
        << <<1,1>>, <<2,1>>, <<1,2>>, <<2,2>> >>,
        << <<1,1>>, <<2,1>>, <<1,2>>, <<2,2>> >>,
        << <<1,1>>, <<2,1>>, <<1,2>>, <<2,2>> >> >>,
     (* T *)
     << << <<1,0>>, <<0,1>>, <<1,1>>, <<2,1>> >>,
        << <<1,0>>, <<1,1>>, <<2,1>>, <<1,2>> >>,
        << <<0,1>>, <<1,1>>, <<2,1>>, <<1,2>> >>,
        << <<1,0>>, <<0,1>>, <<1,1>>, <<1,2>> >> >>,
     (* S *)
     << << <<1,0>>, <<2,0>>, <<0,1>>, <<1,1>> >>,
        << <<1,0>>, <<1,1>>, <<2,1>>, <<2,2>> >>,
        << <<1,1>>, <<2,1>>, <<0,2>>, <<1,2>> >>,
        << <<0,0>>, <<0,1>>, <<1,1>>, <<1,2>> >> >>,
     (* Z *)
     << << <<0,0>>, <<1,0>>, <<1,1>>, <<2,1>> >>,
        << <<2,0>>, <<1,1>>, <<2,1>>, <<1,2>> >>,
        << <<0,1>>, <<1,1>>, <<1,2>>, <<2,2>> >>,
        << <<1,0>>, <<0,1>>, <<1,1>>, <<0,2>> >> >>,
     (* J *)
     << << <<0,0>>, <<0,1>>, <<1,1>>, <<2,1>> >>,
        << <<1,0>>, <<2,0>>, <<1,1>>, <<1,2>> >>,
        << <<0,1>>, <<1,1>>, <<2,1>>, <<2,2>> >>,
        << <<1,0>>, <<1,1>>, <<0,2>>, <<1,2>> >> >>,
     (* L *)
     << << <<2,0>>, <<0,1>>, <<1,1>>, <<2,1>> >>,
        << <<1,0>>, <<1,1>>, <<1,2>>, <<2,2>> >>,
        << <<0,1>>, <<1,1>>, <<2,1>>, <<0,2>> >>,
        << <<0,0>>, <<1,0>>, <<1,1>>, <<1,2>> >> >> >>

(* Variant of the shape table in which the odd rotations of O sit one      *)
(* column to the left.                                                     *)
shapeOfShiftedO(kind, rot) ==
  IF kind = 1 /\ rot % 2 = 1
  THEN [i \in 1..4 |-> <<pieceShapes[2][rot + 1][i][1] - 1, pieceShapes[2][rot + 1][i][2]>>]
  ELSE pieceShapes[kind + 1][rot + 1]

shapeOf(kind, rot) == pieceShapes[kind + 1][rot + 1]

emptyRow == [x \in 0..(boardW - 1) |-> 0]

emptyBoard == [y \in 0..(boardH - 1) |-> emptyRow]

(* ------------------------- the random source --------------------------- *)
(* g.rng is a math/rand generator that NewGame seeds from the clock.  The  *)
(* game reads it only through rand.Shuffle in popBag, so its state is      *)
(* modelled by the output it still has to give: a sequence with one entry  *)
(* for each Shuffle to come, the entry being the numbers j that the calls  *)
(* Intn(7), Intn(6), ..., Intn(2) of that Shuffle return, in call order.   *)
(* The clock value is the choice of the environment.                       *)

(* ShuffleDraws[seed]: what the first 8 calls Shuffle(7, swap) of          *)
(* rand.New(rand.NewSource(seed)) get from Intn, for the seeds 1..26       *)
(* (math/rand: the additive lagged Fibonacci source of rng.go, seeded as   *)
(* in rngSource.Seed, and Rand.int31n).  A clock value that differs from   *)
(* seed by a multiple of 2^31 - 1 seeds the same generator.                *)
ShuffleDraws ==
  <<
     (* seed  1 *)
     << <<4, 5, 3, 1, 1, 1>>, <<0, 0, 0, 1, 1, 1>>, <<1, 2, 1, 1, 0, 0>>, <<4, 1, 1, 1, 1, 1>>,
        <<2, 1, 3, 0, 2, 1>>, <<3, 0, 0, 2, 2, 0>>, <<4, 0, 3, 1, 0, 1>>, <<3, 1, 2, 2, 0, 0>> >>,
     (* seed  2 *)
     << <<1, 1, 0, 0, 1, 1>>, <<2, 1, 1, 0, 1, 1>>, <<2, 2, 3, 3, 1, 0>>, <<3, 5, 2, 0, 1, 0>>,
        <<3, 5, 3, 1, 1, 0>>, <<5, 2, 1, 0, 1, 1>>, <<5, 2, 2, 1, 0, 1>>, <<1, 2, 2, 0, 0, 0>> >>,
     (* seed  3 *)
     << <<5, 3, 4, 3, 2, 0>>, <<2, 3, 1, 1, 1, 1>>, <<5, 2, 4, 1, 1, 1>>, <<2, 2, 3, 3, 2, 1>>,
        <<4, 0, 3, 0, 2, 1>>, <<1, 3, 0, 2, 1, 1>>, <<5, 5, 1, 3, 0, 1>>, <<0, 4, 1, 0, 0, 1>> >>,
     (* seed  4 *)
     << <<1, 0, 1, 3, 0, 0>>, <<5, 3, 4, 2, 1, 1>>, <<0, 0, 1, 3, 1, 0>>, <<1, 0, 0, 3, 2, 0>>,
        <<5, 4, 0, 1, 1, 0>>, <<4, 2, 1, 3, 0, 1>>, <<6, 2, 0, 0, 0, 1>>, <<1, 5, 1, 2, 2, 0>> >>,
     (* seed  5 *)
     << <<5, 3, 4, 2, 1, 1>>, <<3, 5, 1, 3, 0, 1>>, <<3, 0, 2, 1, 1, 0>>, <<0, 4, 0, 2, 2, 1>>,
        <<6, 4, 2, 2, 2, 1>>, <<0, 4, 0, 3, 2, 0>>, <<6, 5, 4, 1, 0, 1>>, <<0, 1, 4, 1, 1, 0>> >>,
     (* seed  6 *)
     << <<2, 5, 3, 1, 2, 1>>, <<6, 0, 3, 3, 0, 0>>, <<4, 0, 3, 3, 2, 0>>, <<6, 3, 2, 1, 2, 1>>,
        <<1, 2, 0, 2, 1, 1>>, <<2, 5, 3, 3, 0, 1>>, <<0, 2, 3, 0, 2, 1>>, <<4, 2, 0, 3, 1, 1>> >>,
     (* seed  7 *)
     << <<6, 1, 1, 3, 2, 0>>, <<2, 2, 0, 2, 1, 0>>, <<1, 5, 0, 0, 2, 1>>, <<5, 0, 4, 1, 2, 0>>,
        <<2, 4, 2, 3, 2, 0>>, <<6, 2, 4, 3, 2, 0>>, <<0, 5, 2, 1, 2, 1>>, <<3, 4, 1, 0, 0, 1>> >>,
     (* seed  8 *)
     << <<3, 4, 4, 0, 2, 0>>, <<1, 2, 3, 1, 0, 1>>, <<0, 5, 2, 2, 2, 1>>, <<5, 4, 4, 0, 2, 1>>,
        <<5, 0, 4, 2, 1, 1>>, <<2, 1, 3, 3, 0, 0>>, <<2, 1, 1, 2, 2, 1>>, <<4, 4, 4, 2, 2, 1>> >>,
     (* seed  9 *)
     << <<0, 0, 2, 2, 0, 1>>, <<3, 4, 3, 2, 1, 0>>, <<0, 5, 3, 0, 2, 1>>, <<4, 1, 1, 3, 2, 0>>,
        <<6, 4, 4, 1, 2, 0>>, <<4, 2, 4, 3, 1, 0>>, <<5, 4, 4, 2, 1, 0>>, <<3, 1, 4, 1, 2, 0>> >>,
     (* seed 10 *)
     << <<3, 2, 4, 1, 1, 1>>, <<2, 4, 4, 0, 2, 0>>, <<4, 3, 4, 2, 2, 0>>, <<3, 5, 3, 3, 2, 1>>,
        <<1, 4, 4, 0, 1, 1>>, <<0, 4, 3, 1, 2, 1>>, <<3, 2, 2, 0, 2, 0>>, <<1, 2, 3, 3, 2, 0>> >>,
     (* seed 11 *)
     << <<0, 4, 4, 2, 2, 0>>, <<5, 5, 2, 1, 0, 0>>, <<4, 3, 2, 0, 2, 1>>, <<2, 3, 3, 2, 2, 0>>,
        <<2, 2, 0, 1, 1, 0>>, <<3, 3, 1, 3, 2, 1>>, <<6, 4, 1, 0, 0, 0>>, <<0, 3, 4, 0, 1, 0>> >>,
     (* seed 12 *)
     << <<4, 1, 1, 0, 2, 0>>, <<2, 5, 0, 0, 2, 0>>, <<3, 3, 3, 2, 0, 1>>, <<1, 2, 4, 1, 0, 1>>,
        <<2, 3, 1, 1, 0, 1>>, <<0, 4, 2, 0, 2, 0>>, <<4, 1, 0, 2, 0, 0>>, <<1, 5, 2, 1, 0, 1>> >>,
     (* seed 13 *)
     << <<1, 4, 0, 3, 2, 1>>, <<0, 1, 2, 3, 2, 0>>, <<2, 2, 4, 3, 0, 0>>, <<6, 0, 2, 1, 0, 0>>,
        <<4, 1, 2, 0, 1, 0>>, <<1, 0, 1, 2, 1, 1>>, <<0, 5, 4, 3, 0, 0>>, <<0, 0, 3, 1, 0, 1>> >>,
     (* seed 14 *)
     << <<5, 5, 2, 2, 0, 1>>, <<2, 1, 1, 2, 0, 0>>, <<0, 2, 1, 2, 2, 0>>, <<5, 3, 0, 0, 0, 1>>,
        <<5, 5, 2, 3, 0, 1>>, <<5, 2, 2, 0, 0, 0>>, <<5, 1, 3, 1, 0, 0>>, <<4, 1, 3, 2, 2, 0>> >>,
     (* seed 15 *)
     << <<2, 2, 0, 2, 1, 0>>, <<1, 3, 3, 3, 2, 1>>, <<1, 2, 3, 3, 2, 0>>, <<4, 1, 3, 3, 0, 0>>,
        <<6, 4, 4, 3, 1, 0>>, <<1, 1, 1, 0, 0, 1>>, <<0, 4, 2, 3, 0, 0>>, <<4, 3, 1, 3, 2, 1>> >>,
     (* seed 16 *)
     << <<6, 5, 3, 1, 2, 0>>, <<4, 3, 1, 0, 2, 1>>, <<6, 1, 4, 1, 2, 1>>, <<3, 5, 0, 3, 0, 1>>,
        <<2, 1, 0, 3, 0, 1>>, <<3, 3, 2, 0, 2, 1>>, <<3, 2, 1, 3, 0, 0>>, <<4, 4, 2, 1, 1, 1>> >>,
     (* seed 17 *)
     << <<3, 1, 1, 0, 0, 1>>, <<0, 0, 4, 2, 1, 1>>, <<4, 0, 0, 3, 2, 0>>, <<2, 3, 4, 2, 2, 0>>,
        <<3, 3, 4, 3, 2, 0>>, <<5, 4, 4, 0, 2, 1>>, <<1, 4, 0, 3, 1, 0>>, <<4, 0, 0, 3, 1, 1>> >>,
     (* seed 18 *)
     << <<0, 3, 0, 0, 1, 1>>, <<5, 0, 4, 1, 2, 1>>, <<3, 0, 2, 1, 2, 0>>, <<1, 1, 2, 1, 0, 1>>,
        <<5, 1, 4, 1, 2, 1>>, <<3, 3, 3, 2, 1, 1>>, <<4, 1, 4, 2, 2, 1>>, <<1, 1, 1, 2, 0, 0>> >>,
     (* seed 19 *)
     << <<4, 5, 3, 3, 0, 1>>, <<1, 2, 1, 2, 0, 1>>, <<1, 0, 3, 2, 0, 0>>, <<0, 5, 3, 1, 0, 0>>,
        <<6, 2, 2, 1, 1, 1>>, <<6, 5, 4, 0, 0, 0>>, <<2, 4, 3, 2, 1, 1>>, <<0, 3, 4, 3, 2, 0>> >>,
     (* seed 20 *)
     << <<1, 2, 0, 2, 1, 0>>, <<1, 2, 3, 3, 1, 1>>, <<1, 5, 0, 1, 0, 1>>, <<6, 3, 3, 0, 1, 0>>,
        <<0, 5, 2, 1, 2, 1>>, <<0, 1, 3, 1, 2, 0>>, <<5, 0, 1, 3, 2, 1>>, <<1, 4, 0, 0, 2, 0>> >>,
     (* seed 21 *)
     << <<5, 5, 4, 0, 2, 0>>, <<3, 4, 0, 1, 2, 0>>, <<6, 5, 1, 2, 0, 1>>, <<5, 1, 2, 3, 1, 0>>,
        <<1, 1, 2, 1, 1, 1>>, <<5, 3, 4, 3, 0, 0>>, <<3, 3, 0, 2, 2, 1>>, <<0, 0, 1, 2, 2, 1>> >>,
     (* seed 22 *)
     << <<1, 0, 1, 1, 0, 1>>, <<1, 4, 2, 0, 1, 1>>, <<6, 5, 3, 3, 0, 1>>, <<4, 4, 2, 3, 1, 1>>,
        <<3, 3, 3, 1, 2, 0>>, <<1, 2, 2, 1, 2, 1>>, <<0, 1, 4, 2, 0, 1>>, <<5, 1, 4, 1, 1, 1>> >>,
     (* seed 23 *)
     << <<5, 3, 1, 0, 1, 1>>, <<5, 0, 3, 3, 1, 1>>, <<3, 3, 0, 2, 1, 0>>, <<3, 2, 2, 2, 1, 0>>,
        <<4, 2, 4, 3, 1, 0>>, <<3, 3, 1, 1, 0, 0>>, <<1, 3, 2, 1, 0, 1>>, <<2, 3, 0, 3, 0, 0>> >>,
     (* seed 24 *)
     << <<2, 5, 3, 2, 1, 0>>, <<0, 0, 1, 2, 0, 0>>, <<2, 4, 1, 0, 1, 1>>, <<2, 1, 0, 1, 1, 1>>,
        <<0, 2, 0, 3, 2, 0>>, <<4, 5, 2, 1, 1, 1>>, <<1, 0, 1, 2, 0, 1>>, <<5, 4, 3, 0, 0, 1>> >>,
     (* seed 25 *)
     << <<6, 2, 1, 3, 2, 0>>, <<0, 2, 2, 0, 1, 0>>, <<3, 3, 3, 0, 1, 1>>, <<1, 5, 1, 1, 1, 0>>,
        <<1, 4, 0, 3, 1, 1>>, <<2, 0, 1, 0, 2, 0>>, <<2, 4, 1, 1, 0, 1>>, <<2, 5, 3, 2, 2, 1>> >>,
     (* seed 26 *)
     << <<3, 4, 4, 2, 2, 1>>, <<3, 2, 3, 1, 1, 0>>, <<6, 2, 4, 3, 1, 0>>, <<1, 3, 0, 0, 2, 1>>,
        <<3, 0, 0, 3, 2, 0>>, <<5, 5, 3, 2, 2, 0>>, <<2, 0, 0, 0, 0, 1>>, <<1, 1, 1, 1, 1, 0>> >>
  >>

NewSource(seed) == ShuffleDraws[seed]

(* Everything one Shuffle of 7 elements can get from Intn: the call        *)
(* Intn(i + 1) returns a number of 0..i.  Each of these 5040 results is    *)
(* the first Shuffle of some seed.                                         *)
AllRands ==
  { <<j6, j5, j4, j3, j2, j1>> :
      j6 \in 0..6, j5 \in 0..5, j4 \in 0..4, j3 \in 0..3, j2 \in 0..2, j1 \in 0..1 }

(* Variant of swap that copies one way only (a lost temporary). *)
swapLossy(seq, i, j) == [seq EXCEPT ![i + 1] = seq[j + 1]]

swap(seq, i, j) == [seq EXCEPT ![i + 1] = seq[j + 1], ![j + 1] = seq[i + 1]]

(* rand.Shuffle(n, swap): for i := n-1; i > 0; i-- { j := Intn(i+1); swap(i, j) } *)
(* rands[k] is what the k-th Intn call returns.                            *)
RECURSIVE shuffleFrom(_, _, _)
shuffleFrom(rands, seq, i) ==
  IF i <= 0 THEN seq
  ELSE shuffleFrom(rands, swap(seq, i, rands[Len(seq) - i]), i - 1)

Shuffle(rands, seq) == shuffleFrom(rands, seq, Len(seq) - 1)

(* ------------------------------ methods -------------------------------- *)

(* popBag: returns the Game after the draw and the kind drawn.  A refill   *)
(* takes the next entry of the generator's output.                         *)
popBag(g) ==
  LET r == IF Len(g.bag) = 0
           THEN [rng |-> Tail(g.rng), bag |-> Shuffle(Head(g.rng), <<0, 1, 2, 3, 4, 5, 6>>)]
           ELSE [rng |-> g.rng, bag |-> g.bag]
      v == Head(r.bag)
  IN [g |-> [g EXCEPT !.bag = Tail(r.bag), !.rng = r.rng,
                      !.draws = Append(@, v),
                      !.refills = IF Len(g.bag) = 0 THEN Append(@, Len(g.draws) + 1) ELSE @],
      v |-> v]

pieceCells(ap) ==
  LET src == shapeOf(ap.kind, ap.rot)
  IN [i \in 1..Len(src) |-> [x |-> ap.x + src[i][1], y |-> ap.y + src[i][2]]]

(* Variant of collides that also rejects column 0 (<= for <). *)
collidesLeftEdge(g, ap) ==
  \E cells \in {pieceCells(ap)} : \E i \in 1..Len(cells) :
    \/ cells[i].x <= 0 \/ cells[i].x >= boardW \/ cells[i].y >= boardH
    \/ (cells[i].y >= 0 /\ g.board[cells[i].y][cells[i].x] # 0)

collides(g, ap) ==
  \E cells \in {pieceCells(ap)} : \E i \in 1..Len(cells) :
    \/ cells[i].x < 0 \/ cells[i].x >= boardW \/ cells[i].y >= boardH
    \/ (cells[i].y >= 0 /\ g.board[cells[i].y][cells[i].x] # 0)

(* Variant of spawn that draws first and spawns the kind just drawn. *)
spawnDrawn(g) ==
  LET d  == popBag([g EXCEPT !.spawned = Append(@, g.nextKind)])
      g2 == [d.g EXCEPT !.nextKind = d.v,
                        !.cur = [kind |-> d.v, rot |-> 0, x |-> 3, y |-> 0]]
  IN IF collides(g2, g2.cur) THEN [g2 EXCEPT !.gameOver = TRUE] ELSE g2

(* Variant of spawn that does not test the new piece for a collision. *)
spawnNoCheck(g) ==
  LET c == [kind |-> g.nextKind, rot |-> 0, x |-> 3, y |-> 0]
      d == popBag([g EXCEPT !.cur = c, !.spawned = Append(@, c.kind)])
  IN [d.g EXCEPT !.nextKind = d.v]

spawn(g) ==
  LET c  == [kind |-> g.nextKind, rot |-> 0, x |-> 3, y |-> 0]
      d  == popBag([g EXCEPT !.cur = c, !.spawned = Append(@, c.kind)])
      g2 == [d.g EXCEPT !.nextKind = d.v]
  IN IF collides(g2, g2.cur) THEN [g2 EXCEPT !.gameOver = TRUE] ELSE g2

(* Variant of clearLines that appends the empty rows below the kept rows. *)
clearLinesPadBelow(g) ==
  LET rows    == [i \in 1..boardH |-> g.board[i - 1]]
      notFull(r) == \E x \in 0..(boardW - 1) : r[x] = 0
      newRows == SelectSeq(rows, notFull)
      cleared == boardH - Len(newRows)
      b       == [y \in 0..(boardH - 1) |->
                    IF y < Len(newRows) THEN newRows[y + 1] ELSE emptyRow]
      lines2  == g.lines + cleared
      level2  == lines2 \div 10
  IN IF cleared > 0
     THEN [g EXCEPT !.board = b, !.lines = lines2, !.level = level2,
                    !.score = @ + <<0, 40, 100, 300, 1200>>[cleared + 1] * (level2 + 1)]
     ELSE [g EXCEPT !.board = b]

(* Variant of clearLines that raises the level by one on every clear       *)
(* instead of recomputing it from the lines.                               *)
clearLinesLevelUp(g) ==
  LET rows    == [i \in 1..boardH |-> g.board[i - 1]]
      notFull(r) == \E x \in 0..(boardW - 1) : r[x] = 0
      newRows == SelectSeq(rows, notFull)
      cleared == boardH - Len(newRows)
      b       == [y \in 0..(boardH - 1) |->
                    IF y < cleared THEN emptyRow ELSE newRows[y - cleared + 1]]
      level2  == g.level + 1
  IN IF cleared > 0
     THEN [g EXCEPT !.board = b, !.lines = @ + cleared, !.level = level2,
                    !.score = @ + <<0, 40, 100, 300, 1200>>[cleared + 1] * (level2 + 1)]
     ELSE [g EXCEPT !.board = b]

(* Variant of clearLines that removes only the lowest full row per call. *)
clearLinesOneRow(g) ==
  LET F == { y \in 0..(boardH - 1) : \A x \in 0..(boardW - 1) : g.board[y][x] # 0 }
  IN IF F = {} THEN g
     ELSE LET m == CHOOSE y \in F : \A z \in F : z <= y
              b == [y \in 0..(boardH - 1) |->
                      IF y = 0 THEN emptyRow
                      ELSE IF y <= m THEN g.board[y - 1] ELSE g.board[y]]
              lines2 == g.lines + 1
          IN [g EXCEPT !.board = b, !.lines = lines2, !.level = lines2 \div 10,
                       !.score = @ + 40 * ((lines2 \div 10) + 1)]

clearLines(g) ==
  LET rows    == [i \in 1..boardH |-> g.board[i - 1]]
      notFull(r) == \E x \in 0..(boardW - 1) : r[x] = 0
      newRows == SelectSeq(rows, notFull)
      cleared == boardH - Len(newRows)
      b       == [y \in 0..(boardH - 1) |->
                    IF y < cleared THEN emptyRow ELSE newRows[y - cleared + 1]]
      scoreTable == <<0, 40, 100, 300, 1200>>
      lines2  == g.lines + cleared
      level2  == lines2 \div 10
  IN IF cleared > 0
     THEN [g EXCEPT !.board = b, !.lines = lines2, !.level = level2,
                    !.score = IF cleared >= 0 /\ cleared <= 4
                              THEN @ + scoreTable[cleared + 1] * (level2 + 1)
                              ELSE @]
     ELSE [g EXCEPT !.board = b]

(* Variant of the write loop that stores the kind itself, not kind + 1. *)
RECURSIVE lockCellsRawKind(_, _, _)
lockCellsRawKind(g, cells, i) ==
  IF i > Len(cells) THEN [g |-> g, over |-> FALSE]
  ELSE IF cells[i].y < 0 THEN [g |-> [g EXCEPT !.gameOver = TRUE], over |-> TRUE]
  ELSE lockCellsRawKind([g EXCEPT !.board[cells[i].y][cells[i].x] = g.cur.kind],
                        cells, i + 1)

(* The write loop of lockPiece: cells are written in order; a cell above   *)
(* the board sets gameOver and returns at once (earlier writes remain).    *)
RECURSIVE lockCells(_, _, _)
lockCells(g, cells, i) ==
  IF i > Len(cells) THEN [g |-> g, over |-> FALSE]
  ELSE IF cells[i].y < 0 THEN [g |-> [g EXCEPT !.gameOver = TRUE], over |-> TRUE]
  ELSE lockCells([g EXCEPT !.board[cells[i].y][cells[i].x] = g.cur.kind + 1],
                 cells, i + 1)

(* Variant of lockPiece that leaves the write loop on a cell above the     *)
(* board but goes on to clear and spawn (break for return).                *)
lockPieceBreak(g) ==
  LET w == lockCells([g EXCEPT !.locks = @ + 1], pieceCells(g.cur), 1)
  IN spawn(clearLines(w.g))

(* Variant of lockPiece that spawns without clearing lines. *)
lockPieceNoClear(g) ==
  LET w == lockCells([g EXCEPT !.locks = @ + 1], pieceCells(g.cur), 1)
  IN IF w.over THEN w.g ELSE spawn(w.g)

lockPiece(g) ==
  LET w == lockCells([g EXCEPT !.locks = @ + 1], pieceCells(g.cur), 1)
  IN IF w.over THEN w.g ELSE spawn(clearLines(w.g))

(* Variant of tryMove that subtracts dx (a sign slip). *)
tryMoveMirrored(g, dx, dy) ==
  LET next == [g.cur EXCEPT !.x = @ - dx, !.y = @ + dy]
  IN IF ~collides(g, next) THEN [g |-> [g EXCEPT !.cur = next], ok |-> TRUE]
     ELSE [g |-> g, ok |-> FALSE]

tryMove(g, dx, dy) ==
  LET next == [g.cur EXCEPT !.x = @ + dx, !.y = @ + dy]
  IN IF ~collides(g, next) THEN [g |-> [g EXCEPT !.cur = next], ok |-> TRUE]
     ELSE [g |-> g, ok |-> FALSE]

(* Variant of the kick list that tries right before left. *)
kickOffsetsRightFirst == <<0, 1, -1, 2, -2>>

kickOffsets == <<0, -1, 1, -2, 2>>

(* Variant of tryRotate's kick loop with a floor kick: when no horizontal  *)
(* offset fits, the rotated piece is tried one row higher.                 *)
RECURSIVE rotateFromFloorKick(_, _, _)
rotateFromFloorKick(g, next, k) ==
  IF k > Len(kickOffsets)
  THEN IF ~collides(g, [next EXCEPT !.y = @ - 1])
       THEN [g |-> [g EXCEPT !.cur = [next EXCEPT !.y = @ - 1]], ok |-> TRUE]
       ELSE [g |-> g, ok |-> FALSE]
  ELSE LET test == [next EXCEPT !.x = @ + kickOffsets[k]]
       IN IF ~collides(g, test) THEN [g |-> [g EXCEPT !.cur = test], ok |-> TRUE]
          ELSE rotateFromFloorKick(g, next, k + 1)

RECURSIVE rotateFrom(_, _, _)
rotateFrom(g, next, k) ==
  IF k > Len(kickOffsets) THEN [g |-> g, ok |-> FALSE]
  ELSE LET test == [next EXCEPT !.x = @ + kickOffsets[k]]
       IN IF ~collides(g, test) THEN [g |-> [g EXCEPT !.cur = test], ok |-> TRUE]
          ELSE rotateFrom(g, next, k + 1)

tryRotate(g, dir) ==
  rotateFrom(g, [g.cur EXCEPT !.rot = (@ + dir + 4) % 4], 1)

RECURSIVE dropAll(_)
dropAll(g) == LET m == tryMove(g, 0, 1) IN IF m.ok THEN dropAll(m.g) ELSE g

(* Variant of hardDrop that leaves dropFrameCounter as it is. *)
hardDropKeepCounter(g) == lockPiece(dropAll(g))

hardDrop(g) == [lockPiece(dropAll(g)) EXCEPT !.dropFrameCounter = 0]

(* Variant of gravityFrames that speeds up by one frame per level. *)
gravityFramesPerLevel(level) ==
  LET f == 30 - level IN IF f < 2 THEN 2 ELSE f

gravityFrames(level) ==
  LET f == 30 - level * 2 IN IF f < 2 THEN 2 ELSE f

RECURSIVE ghostFrom(_, _)
ghostFrom(g, ghost) ==
  IF ~collides(g, [ghost EXCEPT !.y = @ + 1])
  THEN ghostFrom(g, [ghost EXCEPT !.y = @ + 1])
  ELSE ghost.y

(* Variant of ghostPieceY that reports the row below the resting row. *)
ghostPieceYBelow(g) == ghostFrom(g, g.cur) + 1

ghostPieceY(g) == ghostFrom(g, g.cur)

(* NewGame: a zero Game with a freshly seeded rng, one draw and one spawn. *)
(* source is the output of the generator the clock value seeds.            *)
NewGame(source) ==
  LET z == [board |-> emptyBoard,
            cur |-> [kind |-> 0, rot |-> 0, x |-> 0, y |-> 0],
            nextKind |-> 0, bag |-> <<>>, rng |-> source,
            score |-> 0, lines |-> 0, level |-> 0,
            dropFrameCounter |-> 0, gameOver |-> FALSE,
            draws |-> <<>>, refills |-> <<>>, spawned |-> <<>>, locks |-> 0]
      d == popBag(z)
  IN spawn([d.g EXCEPT !.nextKind = d.v])

(* Variant of Reset that carries the score over into the new game. *)
ResetKeepScore(g, source) == [NewGame(source) EXCEPT !.score = g.score]

Reset(g, source) == NewGame(source)

(* ------------------------------- input --------------------------------- *)
(* What one Update call reads from the input layer.                        *)
(*   keys : the keys just pressed this frame, by the command they are      *)
(*          bound to: "Left" (Left/A), "Right" (Right/D), "Z", "X"         *)
(*          (X/Up/W), "Space", "Enter";                                    *)
(*   down : Down or S is held;                                             *)
(*   just : the screen regions holding a touch that began this frame       *)
(*          (0..3 are the four buttons Left, Right, Rotate, Drop of the    *)
(*          bottom bar, 4 is anywhere else);                               *)
(*   held : the regions holding any touch (just \subseteq held);           *)
(*   source : the output of the generator NewGame seeds from the clock,    *)
(*          read only if this call restarts the game.                      *)
Keys == {"Left", "Right", "Z", "X", "Space", "Enter"}

Regions == 0..4

Frame(keys, down, just, held) ==
  [keys |-> keys, down |-> down, just |-> just, held |-> held \cup just,
   source |-> NewSource(RecordedSeed)]

KeyFrame(keys) == Frame(keys, FALSE, {}, {})

(* Variant of the restart condition that forgets the Enter key. *)
restartSpaceOnly(in) == "Space" \in in.keys \/ in.just # {}

(* IsKeyJustPressed(Space) || IsKeyJustPressed(Enter) || a touch just began *)
restartPressed(in) == "Space" \in in.keys \/ "Enter" \in in.keys \/ in.just # {}

(* softDrop as Update computes it (keyboard, and on mobile the two left buttons) *)
softDropActive(in, mobile) ==
  in.down \/ (mobile /\ (0 \in in.held \/ 1 \in in.held))

(* ------------------------------ Update --------------------------------- *)

(* Move down one row or, failing that, lock. *)
fall(g) == LET m == tryMove(g, 0, 1) IN IF m.ok THEN m.g ELSE lockPiece(g)

(* "Gravity and soft drop", the last block of Update. *)
gravityStep(g, soft) ==
  LET g1 == [g EXCEPT !.dropFrameCounter = @ + 1]
  IN IF soft THEN [fall(g1) EXCEPT !.dropFrameCounter = 0]
     ELSE IF g1.dropFrameCounter >= gravityFrames(g1.level)
          THEN [fall(g1) EXCEPT !.dropFrameCounter = 0]
          ELSE g1

Opt(c, name) == IF c THEN <<name>> ELSE <<>>

(* Variant of the call order that runs the gravity step before the         *)
(* commands of the frame.                                                  *)
stepListGravityFirst(in, mobile) ==
  <<"gravity">> \o
  Opt("Left" \in in.keys, "keyLeft") \o Opt("Right" \in in.keys, "keyRight") \o
  Opt("Z" \in in.keys, "keyZ") \o Opt("X" \in in.keys, "keyX") \o
  Opt("Space" \in in.keys, "keySpace") \o
  Opt(mobile /\ 0 \in in.just, "touchLeft") \o
  Opt(mobile /\ 1 \in in.just, "touchRight") \o
  Opt(mobile /\ 2 \in in.just, "touchRotate") \o
  Opt(mobile /\ 3 \in in.just, "touchDrop")

(* The calls one Update makes while the game is running, in program order. *)
stepList(in, mobile) ==
  Opt("Left" \in in.keys, "keyLeft") \o Opt("Right" \in in.keys, "keyRight") \o
  Opt("Z" \in in.keys, "keyZ") \o Opt("X" \in in.keys, "keyX") \o
  Opt("Space" \in in.keys, "keySpace") \o
  Opt(mobile /\ 0 \in in.just, "touchLeft") \o
  Opt(mobile /\ 1 \in in.just, "touchRight") \o
  Opt(mobile /\ 2 \in in.just, "touchRotate") \o
  Opt(mobile /\ 3 \in in.just, "touchDrop") \o
  <<"gravity">>

(* Variant of the calls of Update in which a side move or rotation that     *)
(* succeeds restarts the gravity count (a lock delay reset by every move).  *)
applyStepMoveReset(name, g, soft) ==
  CASE name \in {"keyLeft", "touchLeft"} ->
         LET m == tryMove(g, -1, 0)
         IN IF m.ok THEN [m.g EXCEPT !.dropFrameCounter = 0] ELSE m.g
    [] name \in {"keyRight", "touchRight"} ->
         LET m == tryMove(g, 1, 0)
         IN IF m.ok THEN [m.g EXCEPT !.dropFrameCounter = 0] ELSE m.g
    [] name = "keyZ" ->
         LET m == tryRotate(g, -1)
         IN IF m.ok THEN [m.g EXCEPT !.dropFrameCounter = 0] ELSE m.g
    [] name \in {"keyX", "touchRotate"} ->
         LET m == tryRotate(g, 1)
         IN IF m.ok THEN [m.g EXCEPT !.dropFrameCounter = 0] ELSE m.g
    [] name \in {"keySpace", "touchDrop"} -> hardDrop(g)
    [] name = "gravity" -> gravityStep(g, soft)

applyStep(name, g, soft) ==
  CASE name \in {"keyLeft", "touchLeft"}   -> tryMove(g, -1, 0).g
    [] name \in {"keyRight", "touchRight"} -> tryMove(g, 1, 0).g
    [] name = "keyZ"                       -> tryRotate(g, -1).g
    [] name \in {"keyX", "touchRotate"}    -> tryRotate(g, 1).g
    [] name \in {"keySpace", "touchDrop"}  -> hardDrop(g)
    [] name = "gravity"                    -> gravityStep(g, soft)

RECURSIVE runSteps(_, _, _, _)
runSteps(g, names, k, soft) ==
  IF k > Len(names) THEN <<>>
  ELSE LET g2 == applyStep(names[k], g, soft)
       IN <<[step |-> names[k], from |-> g, to |-> g2]>> \o runSteps(g2, names, k + 1, soft)

(* The calls of one Update with the Game before and after each. *)
UpdateTrace(g, in, mobile) ==
  IF g.gameOver
  THEN IF restartPressed(in)
       THEN <<[step |-> "reset", from |-> g, to |-> Reset(g, in.source)]>>
       ELSE <<>>
  ELSE runSteps(g, stepList(in, mobile), 1, softDropActive(in, mobile))

Update(g, in, mobile) ==
  LET t == UpdateTrace(g, in, mobile) IN IF t = <<>> THEN g ELSE Last(t).to

(* --------------------------- explored inputs --------------------------- *)

(* A game recorded for RecordedSeed.  "Down" stands for the held Down key.  *)
(*  - thirty idle frames: the first piece falls one row by gravity;        *)
(*  - a game played until ten lines are cleared (level 1), in which the    *)
(*    first I piece is stood up, pushed into the left wall and rotated     *)
(*    back (kick +2), the second I piece likewise at the right wall (kick  *)
(*    -2), the first T piece rotated at the left wall (kick +1), and a     *)
(*    piece soft-dropped onto the stack and rotated there (kick -1         *)
(*    where +1 fits too);                                                  *)
(*  - a soft drop beside locked cells and a push against them;             *)
(*  - idle frames until gravity locks that piece;                          *)
(*  - placements that leave a hollow under an overhang at the spawn        *)
(*    column, then hard drops there until the stack reaches the top, but   *)
(*    for an O piece pushed to the left wall, rotated there both ways and  *)
(*    dropped;                                                             *)
(*  - an ignored key, a restart, and two frames of the new game.           *)
RecordedKeys ==
  << {}, {}, {}, {}, {}, {},
     {}, {}, {}, {}, {}, {},
     {}, {}, {}, {}, {}, {},
     {}, {}, {}, {}, {}, {},
     {}, {}, {}, {}, {}, {},
     {"X"}, {"Left"}, {"Left"}, {"Left"}, {"Left"}, {"Left"},
     {"Left"}, {"Z"}, {"Right"}, {"Right"}, {"Right", "Space"}, {"Left"},
     {"Left"}, {"Left", "Space"}, {"Right"}, {"Right"}, {"Right"}, {"Right", "Space"},
     {"Right"}, {"Right", "Space"}, {"Left"}, {"Left"}, {"Left", "Space"}, {"X"},
     {"Left"}, {"Left"}, {"Left"}, {"Left"}, {"X"}, {"Right", "X"},
     {"Right", "X"}, {"Right", "Space"}, {"Down"}, {"Down"}, {"Down"}, {"Down"},
     {"Down"}, {"Down"}, {"Down"}, {"Down"}, {"Down"}, {"Down"},
     {"Down"}, {"Down"}, {"Down"}, {"Down"}, {"Down"}, {"Down"},
     {"Z"}, {"Right", "X"}, {"Right", "Space", "X"}, {"Left"}, {"Left", "Space"}, {"Right", "Space", "X"},
     {"Right", "X"}, {"Right", "X"}, {"Right", "X"}, {"Right", "Space"}, {"Z"}, {"Right"},
     {"Right"}, {"Right"}, {"Right"}, {"Right"}, {"X"}, {"Right", "X"},
     {"Right", "Space"}, {"Left", "X"}, {"Left", "X"}, {"Left", "Space", "X"}, {"Right"}, {"Right"},
     {"Right", "Space"}, {"Right", "X"}, {"Right", "X"}, {"Right"}, {"Right", "Space"}, {"Left"},
     {"Left", "Space"}, {"Left", "Space", "X"}, {"Left", "X"}, {"Left"}, {"Left"}, {"Left", "Space"},
     {"Right"}, {"Right"}, {"Right"}, {"Right", "Space"}, {"Right", "Space", "X"}, {"Right", "X"},
     {"Right"}, {"Right"}, {"Right", "Space"}, {"Right", "X"}, {"Right", "Space"}, {"Left"},
     {"Left"}, {"Left", "Space"}, {"Left"}, {"Left", "Space"}, {"Right", "X"}, {"Right", "X"},
     {"Right", "X"}, {"Right"}, {"Right", "Space"}, {"Right", "X"}, {"Right", "Space"}, {"Left", "X"},
     {"Left", "Space", "X"}, {"Left", "X"}, {"Left"}, {"Left"}, {"Left", "Space"}, {"Right", "Space"},
     {"Left", "Space"}, {"Right"}, {"Right"}, {"Right"}, {"Down"}, {"Down"},
     {"Down"}, {"Down"}, {"Down"}, {"Down"}, {"Down"}, {"Down"},
     {"Down"}, {"Down"}, {"Down"}, {"Down"}, {"Down"}, {"Down"},
     {"Down"}, {"Down"}, {"Right"}, {}, {}, {},
     {}, {}, {}, {}, {}, {},
     {}, {}, {}, {}, {}, {},
     {}, {}, {}, {}, {}, {},
     {}, {}, {}, {}, {}, {},
     {"Right"}, {"Right", "Space"}, {"Space"}, {"Space"}, {"Space"}, {"Left"},
     {"Left"}, {"Left"}, {"Left"}, {"Left"}, {"X"}, {"Z"},
     {"Space"}, {"Space"}, {"Space"}, {"Space"}, {"Space"}, {"Space"},
     {"Left"}, {"Enter"}, {"Left"}, {"Space"} >>

Playthrough(source) ==
  IF source = NewSource(RecordedSeed)
  THEN [i \in 1..Len(RecordedKeys) |->
          Frame(RecordedKeys[i] \ {"Down"}, "Down" \in RecordedKeys[i], {}, {})]
  ELSE <<>>

(* The input frames tried at every state of the recorded game. *)
FreeFrames ==
  { KeyFrame({}), KeyFrame({"Left"}), KeyFrame({"Right"}), KeyFrame({"Z"}),
    KeyFrame({"X"}), KeyFrame({"Space"}), KeyFrame({"Enter"}),
    Frame({}, TRUE, {}, {}), Frame({"Space"}, TRUE, {}, {}),
    Frame({}, FALSE, {0}, {}), Frame({}, FALSE, {1}, {}), Frame({}, FALSE, {2}, {}),
    Frame({}, FALSE, {3}, {}), Frame({}, FALSE, {4}, {}),
    Frame({"Space"}, FALSE, {3}, {}) }

(* ------------------------------- state --------------------------------- *)
VARIABLES
  board, cur, nextKind, bag, rng, score, lines, level, dropFrameCounter, gameOver,
  draws,     \* history: every kind popBag returned since NewGame
  refills,   \* history: the positions in draws that followed a refill
  spawned,   \* history: the kind of every piece spawn created since NewGame
  locks,     \* history: the number of lockPiece calls since NewGame
  mobile,    \* runtime.GOOS is "ios" or "android"
  inp,       \* the input of the latest Update
  pre,       \* the Game before the latest Update
  calls,     \* history: the calls the latest Update made, see UpdateTrace
  play,      \* the frames of the recorded game still to come
  free       \* the number of frames taken outside the recorded game

gameVars == <<board, cur, nextKind, bag, rng, score, lines, level,
              dropFrameCounter, gameOver, draws, refills, spawned, locks>>

vars == <<gameVars, mobile, inp, pre, calls, play, free>>

G == [board |-> board, cur |-> cur, nextKind |-> nextKind, bag |-> bag, rng |-> rng,
      score |-> score, lines |-> lines, level |-> level,
      dropFrameCounter |-> dropFrameCounter, gameOver |-> gameOver,
      draws |-> draws, refills |-> refills, spawned |-> spawned, locks |-> locks]

IsGame(r) ==
  /\ board = r.board /\ cur = r.cur /\ nextKind = r.nextKind /\ bag = r.bag
  /\ rng = r.rng /\ score = r.score /\ lines = r.lines /\ level = r.level
  /\ dropFrameCounter = r.dropFrameCounter /\ gameOver = r.gameOver
  /\ draws = r.draws /\ refills = r.refills /\ spawned = r.spawned /\ locks = r.locks

Init ==
  \E source \in {NewSource(seed) : seed \in Seeds} :
    /\ IsGame(NewGame(source))
    /\ mobile \in BOOLEAN
    /\ inp = KeyFrame({})
    /\ pre = NewGame(source)
    /\ calls = <<>>
    /\ play = Playthrough(source)
    /\ free = 0

(* One call of Update with input in: the Game becomes Update(G, in,        *)
(* mobile), the result of the last call of the trace.                      *)
DoUpdate(in) ==
  \E tr \in {UpdateTrace(G, in, mobile)} :
    \E r \in {IF tr = <<>> THEN G ELSE Last(tr).to} :
      /\ board' = r.board /\ cur' = r.cur /\ nextKind' = r.nextKind /\ bag' = r.bag
      /\ rng' = r.rng /\ score' = r.score /\ lines' = r.lines /\ level' = r.level
      /\ dropFrameCounter' = r.dropFrameCounter /\ gameOver' = r.gameOver
      /\ draws' = r.draws /\ refills' = r.refills /\ spawned' = r.spawned
      /\ locks' = r.locks
      /\ inp' = in
      /\ pre' = G
      /\ calls' = tr
      /\ UNCHANGED mobile

(* Update with the next frame of the recorded game. *)
UpdateRecorded ==
  /\ free = 0
  /\ play # <<>>
  /\ DoUpdate(Head(play))
  /\ play' = Tail(play)
  /\ UNCHANGED free

(* Update with an arbitrary frame; the recorded game is abandoned. *)
UpdateFree ==
  /\ free < MaxFree
  /\ \E f \in FreeFrames, seed \in Seeds :
       /\ seed = RecordedSeed \/ (gameOver /\ restartPressed(f))
       /\ DoUpdate([f EXCEPT !.source = NewSource(seed)])
  /\ play' = <<>>
  /\ free' = free + 1

Next == UpdateRecorded \/ UpdateFree

Spec == Init /\ [][Next]_vars

(* The calls made by the latest Update. *)
LastTrace == calls

(* ------------------- the methods called on their own -------------------- *)
(* A second specification: lockPiece and clearLines applied directly to a  *)
(* Game, as a caller of the package can.  The Games are a new game whose   *)
(* board holds a stack of full-but-one-column rows and whose piece is      *)
(* either resting on the stack or lifted so that cells lie above the       *)
(* board; "written" Games are in the middle of lockPiece, after the write  *)
(* loop and before clearLines.                                             *)

(* the highest stack of the input boards *)
MaxStack == 4

(* rows boardH-h .. boardH-1 filled except column gap *)
StackBoard(h, gap) ==
  [y \in 0..(boardH - 1) |->
     [x \in 0..(boardW - 1) |-> IF y >= boardH - h /\ x # gap THEN 1 ELSE 0]]

(* the input Games with stacks of the heights hs *)
InputGames(hs) ==
  { g \in
      UNION { UNION {
        { [NewGame(NewSource(seed)) EXCEPT !.board = StackBoard(h, gap),
                                !.cur = [kind |-> k, rot |-> r, x |-> x, y |-> -2]] :
            k \in 0..(NumKinds - 1), r \in 0..3, x \in {3, gap - 1, gap - 2} } :
          seed \in Seeds } : h \in hs, gap \in {0, 4, boardW - 1} } :
      ~collides(g, g.cur) }

CallsInit ==
  \E g0 \in InputGames(0..MaxStack), lift \in 0..2, written \in BOOLEAN :
    \E g1 \in {[g0 EXCEPT !.cur.y = IF lift = 0 THEN ghostFrom(g0, g0.cur) ELSE -lift]} :
      \E w \in {lockCells(g1, pieceCells(g1.cur), 1)} :
        /\ written => ~w.over
        /\ IsGame(IF written THEN w.g ELSE g1)
        /\ mobile = FALSE
        /\ inp = KeyFrame({})
        /\ pre = (IF written THEN w.g ELSE g1)
        /\ calls = <<>>
        /\ play = <<>>
        /\ free = 0

(* One direct call of a method; the trace keeps the calls made so far. *)
DoCall(name, r) ==
  /\ board' = r.board /\ cur' = r.cur /\ nextKind' = r.nextKind /\ bag' = r.bag
  /\ rng' = r.rng /\ score' = r.score /\ lines' = r.lines /\ level' = r.level
  /\ dropFrameCounter' = r.dropFrameCounter /\ gameOver' = r.gameOver
  /\ draws' = r.draws /\ refills' = r.refills /\ spawned' = r.spawned
  /\ locks' = r.locks
  /\ calls' = Append(calls, [step |-> name, from |-> G, to |-> r])
  /\ UNCHANGED <<mobile, inp, pre, play, free>>

(* lockPiece() on a Game whose piece is a valid placement (not written yet) *)
CallLockPiece ==
  /\ calls = <<>> /\ ~collides(G, cur)
  /\ \E r \in {lockPiece(G)} : DoCall("lockPiece", r)

(* clearLines(), at most twice in a row *)
CallClearLines ==
  /\ Len(calls) < 2
  /\ \A i \in 1..Len(calls) : calls[i].step = "clearLines"
  /\ \E r \in {clearLines(G)} : DoCall("clearLines", r)

CallsNext == CallLockPiece \/ CallClearLines

SpecCalls == CallsInit /\ [][CallsNext]_vars

(* -------------------- Update called for ever ---------------------------- *)

(* The ebiten loop calls Update on every tick (RunGame, main l.494-500).    *)
(* Here each tick brings any input of LiveFrames, and the piece in play at  *)
(* the start is followed until it is locked or the game is over.  In this   *)
(* specification pre stays the Game at the start, free is the parity of     *)
(* the number of ticks taken, and inp and calls are not recorded.           *)
MaxLiveDrops == 3

LiveFrames ==
  { KeyFrame({}), KeyFrame({"Left"}), KeyFrame({"Right"}), KeyFrame({"Z"}),
    KeyFrame({"X"}), KeyFrame({"Space"}), Frame({}, TRUE, {}, {}) }

(* The Game after NewGame and n ticks with Space just pressed: n pieces  *)
(* dropped where they spawned.                                             *)
RECURSIVE AfterDrops(_)
AfterDrops(n) ==
  IF n = 0 THEN NewGame(NewSource(RecordedSeed)) ELSE Update(AfterDrops(n - 1), KeyFrame({"Space"}), FALSE)

LiveInit ==
  \E n \in {0, MaxLiveDrops} :
    /\ IsGame(AfterDrops(n))
    /\ mobile = FALSE
    /\ inp = KeyFrame({})
    /\ pre = AfterDrops(n)
    /\ calls = <<>>
    /\ play = <<>>
    /\ free = 0

(* Update is due: the game runs and the piece of the start is in play. *)
LiveRunning == ~gameOver /\ locks = pre.locks

LiveUpdate ==
  /\ LiveRunning
  /\ \E f \in LiveFrames : \E r \in {Update(G, f, mobile)} :
       /\ board' = r.board /\ cur' = r.cur /\ nextKind' = r.nextKind /\ bag' = r.bag
       /\ rng' = r.rng /\ score' = r.score /\ lines' = r.lines /\ level' = r.level
       /\ dropFrameCounter' = r.dropFrameCounter /\ gameOver' = r.gameOver
       /\ draws' = r.draws /\ refills' = r.refills /\ spawned' = r.spawned
       /\ locks' = r.locks
  /\ free' = 1 - free
  /\ UNCHANGED <<mobile, inp, pre, calls, play>>

LiveNext == LiveUpdate

(* A tick: some Update is taken while one is due. *)
LiveTick == LiveRunning /\ free' = 1 - free

SpecLive == LiveInit /\ [][LiveNext]_vars /\ WF_free(LiveTick)

(* ----------------------- vocabulary of the claims ----------------------- *)
(* These definitions state what the specification says in its own terms;   *)
(* none of them uses a method of the model.                                *)

MaxLevel == 20

MoveSteps == {"keyLeft", "touchLeft", "keyRight", "touchRight"}

RotateSteps == {"keyZ", "keyX", "touchRotate"}

DropSteps == {"keySpace", "touchDrop"}

dxOf(step) == IF step \in {"keyLeft", "touchLeft"} THEN -1 ELSE 1

dirOf(step) == IF step = "keyZ" THEN -1 ELSE 1

CellsOf(ap) ==
  { [x |-> ap.x + shapeOf(ap.kind, ap.rot)[i][1],
     y |-> ap.y + shapeOf(ap.kind, ap.rot)[i][2]] : i \in 1..4 }

(* isValidPlacement of the specification, section 4.1 *)
ValidPlacement(b, ap) ==
  \A p \in CellsOf(ap) :
    /\ 0 <= p.x /\ p.x < boardW /\ p.y < boardH
    /\ (p.y < 0 \/ b[p.y][p.x] = 0)

Shifted(ap, dx, dy) == [ap EXCEPT !.x = @ + dx, !.y = @ + dy]

(* the board with the cells of ap holding kind+1 *)
Placed(b, ap) ==
  LET s == shapeOf(ap.kind, ap.rot)
  IN [b EXCEPT ![ap.y + s[1][2]][ap.x + s[1][1]] = ap.kind + 1,
               ![ap.y + s[2][2]][ap.x + s[2][1]] = ap.kind + 1,
               ![ap.y + s[3][2]][ap.x + s[3][1]] = ap.kind + 1,
               ![ap.y + s[4][2]][ap.x + s[4][1]] = ap.kind + 1]

FullRows(b) == { y \in 0..(boardH - 1) : \A x \in 0..(boardW - 1) : b[y][x] # 0 }

(* b2 is b1 with its full rows removed, the other rows moved down in       *)
(* order, and empty rows on top.                                           *)
Compacts(b1, b2) ==
  \A F \in {FullRows(b1)} :
    /\ DOMAIN b2 = 0..(boardH - 1)
    /\ \A y \in 0..(boardH - 1) :
         /\ y < Cardinality(F) => b2[y] = emptyRow
         /\ y \notin F => b2[y + Cardinality({f \in F : f > y})] = b1[y]

(* the row at which a piece falling straight down from ap comes to rest *)
RECURSIVE RestRow(_, _)
RestRow(b, ap) ==
  IF ValidPlacement(b, [ap EXCEPT !.y = @ + 1])
  THEN RestRow(b, [ap EXCEPT !.y = @ + 1])
  ELSE ap.y

(* the piece the lock of call e writes: a hard drop locks the piece where  *)
(* it comes to rest, the gravity step where it is                          *)
LockedPiece(e) ==
  IF e.step \in DropSteps
  THEN [e.from.cur EXCEPT !.y = RestRow(e.from.board, e.from.cur)]
  ELSE e.from.cur

HasLock(e) == e.step # "reset" /\ e.to.locks = e.from.locks + 1

Max(a, b) == IF a >= b THEN a ELSE b

(* ------------------------------- claims -------------------------------- *)

(* C1: 7-bag fairness.  Every group of 7 consecutive draws that starts at  *)
(* a bag refill holds each of the 7 kinds exactly once (refills happen at  *)
(* draws 1, 8, 15, ... and a group still being drawn has no kind twice),   *)
(* and the kinds of the pieces spawned so far are exactly the draws in     *)
(* order: every draw but the latest was spawned, the latest is nextKind.   *)
(* At the start of a game the refill is also checked for every result the  *)
(* generator can give: the bag then holds each kind once.                  *)
C1_BagFairness ==
  /\ Len(draws) >= 2
  /\ (calls = <<>> /\ locks = 0) =>
       \A rands \in AllRands :
         \E b \in {Shuffle(rands, <<0, 1, 2, 3, 4, 5, 6>>)} :
           Len(b) = NumKinds /\ { b[i] : i \in 1..NumKinds } = 0..(NumKinds - 1)
  /\ Len(refills) = (Len(draws) + NumKinds - 1) \div NumKinds
  /\ \A k \in 1..Len(refills) :
       /\ refills[k] = NumKinds * (k - 1) + 1
       /\ \A i, j \in refills[k]..(refills[k] + NumKinds - 1) :
            (i < j /\ j <= Len(draws)) => draws[i] # draws[j]
       /\ refills[k] + NumKinds - 1 <= Len(draws) =>
            { draws[i] : i \in refills[k]..(refills[k] + NumKinds - 1) } = 0..(NumKinds - 1)
  /\ Len(bag) = NumKinds * Len(refills) - Len(draws)
  /\ spawned = SubSeq(draws, 1, Len(draws) - 1)
  /\ nextKind = draws[Len(draws)]
  /\ cur.kind = spawned[Len(spawned)]

(* C1 witness: three bags have been opened after locks and hard drops. *)
C1_Witness ==
  /\ Len(refills) = 3 /\ Len(draws) > 2 * NumKinds + 1 /\ locks > 2 * NumKinds
  /\ \E t \in {LastTrace} : \E i \in 1..Len(t) : t[i].step \in DropSteps

(* C2: once gameOver is set, no later step (of the same Update or of a     *)
(* later one) changes the board until the game is reset.                   *)
C2_NoMutationAfterGameOver ==
  \A t \in {LastTrace} : \A i \in 1..Len(t) :
    (t[i].from.gameOver /\ t[i].step # "reset") => t[i].to.board = t[i].from.board

(* C3: a lock that clears C rows at level L = (lines before the clear)/10  *)
(* adds scoreTable[C] * (L + 1) to the score.                              *)
C3_ScoreUsesLevelBeforeClear ==
  \A t \in {LastTrace} : \A i \in 1..Len(t) :
    HasLock(t[i]) =>
      LET C == t[i].to.lines - t[i].from.lines
          L == t[i].from.lines \div 10
      IN /\ C \in 0..4
         /\ t[i].to.score - t[i].from.score = <<0, 40, 100, 300, 1200>>[C + 1] * (L + 1)

(* C4: rotate(dir) tries the candidate (rot+dir) mod 4 at x-offsets        *)
(* 0,-1,+1,-2,+2 in that order and commits the earliest valid one, leaving *)
(* all else unchanged; with no valid offset it returns false and changes   *)
(* nothing.                                                                *)
C4_RotateEarliestKick ==
  \A t \in {LastTrace} : \A i \in 1..Len(t) :
    t[i].step \in RotateSteps =>
      LET e    == t[i]
          dir  == dirOf(e.step)
          offs == <<0, -1, 1, -2, 2>>
          cand(k) == [e.from.cur EXCEPT !.rot = (@ + dir) % 4, !.x = @ + offs[k]]
          V    == { k \in 1..5 : ValidPlacement(e.from.board, cand(k)) }
      IN IF V # {}
         THEN LET k == CHOOSE m \in V : \A n \in V : m <= n
              IN /\ e.to = [e.from EXCEPT !.cur = cand(k)]
                 /\ e.to.cur.y = e.from.cur.y
                 /\ tryRotate(e.from, dir).ok
         ELSE /\ e.to = e.from
              /\ ~tryRotate(e.from, dir).ok

(* C4 witness: a rotation was kicked by a nonzero offset although a later  *)
(* offset of the list was valid too.                                       *)
C4_Witness ==
  \E t \in {LastTrace} : \E i \in 1..Len(t) :
    /\ t[i].step \in RotateSteps
    /\ t[i].to.cur.x # t[i].from.cur.x
    /\ t[i].to.cur.rot = (t[i].from.cur.rot + dirOf(t[i].step)) % 4
    /\ Cardinality({ o \in {0, -1, 1, -2, 2} :
         ValidPlacement(t[i].from.board,
           [t[i].from.cur EXCEPT !.rot = t[i].to.cur.rot, !.x = @ + o]) }) >= 2

(* C5 as claimed: hardDrop locks at the row ghostPieceY() returned just    *)
(* before, and that row is the greatest y at which the piece (same kind,   *)
(* rotation and x) is a valid placement.                                   *)
C5_DropAtMaximalValidRow ==
  \A t \in {LastTrace} : \A i \in 1..Len(t) :
    t[i].step \in DropSteps =>
      \A gy \in {ghostPieceY(t[i].from)} :
        /\ Compacts(Placed(t[i].from.board, [t[i].from.cur EXCEPT !.y = gy]), t[i].to.board)
        /\ \A y \in (gy + 1)..boardH :
             ~ValidPlacement(t[i].from.board, [t[i].from.cur EXCEPT !.y = y])

(* C5 amended: hardDrop locks at the row ghostPieceY() returned just       *)
(* before, and that row is the first row y at or below the piece's row     *)
(* from which one more step down is not a valid placement: the lowest row  *)
(* reached by falling straight down, not the lowest row where the piece    *)
(* would fit.                                                              *)
C5_DropAtGhostRow ==
  \A t \in {LastTrace} : \A i \in 1..Len(t) :
    t[i].step \in DropSteps =>
      \A gy \in {ghostPieceY(t[i].from)} :
        /\ Compacts(Placed(t[i].from.board, [t[i].from.cur EXCEPT !.y = gy]), t[i].to.board)
        /\ gy >= t[i].from.cur.y
        /\ ~ValidPlacement(t[i].from.board, [t[i].from.cur EXCEPT !.y = gy + 1])
        /\ \A y \in (t[i].from.cur.y + 1)..gy :
             ValidPlacement(t[i].from.board, [t[i].from.cur EXCEPT !.y = y])

(* C5 witness: a hard drop came to rest on an overhang above a gap in      *)
(* which the piece would fit.                                              *)
C5_Witness ==
  \E t \in {LastTrace} : \E i \in 1..Len(t) :
    /\ t[i].step \in DropSteps
    /\ ~t[i].from.gameOver
    /\ \E y \in (ghostPieceY(t[i].from) + 2)..boardH :
         ValidPlacement(t[i].from.board, [t[i].from.cur EXCEPT !.y = y])

(* C6: clearFullRows.  Applied to the board a lock has just written, it    *)
(* keeps exactly H rows, puts the non-full rows at the bottom in their     *)
(* order and unchanged, leaves the top count rows empty, and counts the    *)
(* rows that were full (0..4); the result is the board the lock leaves.    *)
C6_ClearFullRows ==
  \A t \in {LastTrace} : \A i \in 1..Len(t) :
    HasLock(t[i]) =>
      \A b1 \in {Placed(t[i].from.board, LockedPiece(t[i]))} :
        \A r \in {clearLines([t[i].from EXCEPT !.board = b1])}, F \in {FullRows(b1)} :
          /\ r.board = t[i].to.board
          /\ DOMAIN r.board = 0..(boardH - 1)
          /\ Compacts(b1, r.board)
          /\ r.lines - t[i].from.lines = Cardinality(F)
          /\ Cardinality(F) \in 0..4
          /\ F = {boardH - 1} =>
               /\ r.board[0] = emptyRow
               /\ \A y \in 0..(boardH - 2) : r.board[y + 1] = b1[y]

(* C6 witness: a lock filled a row below rows that hold cells, which moved *)
(* down.                                                                   *)
C6_Witness ==
  \E t \in {LastTrace} : \E i \in 1..Len(t) :
    /\ HasLock(t[i])
    /\ \E F \in {FullRows(Placed(t[i].from.board, LockedPiece(t[i])))} :
         /\ F # {}
         /\ \E y \in 0..(boardH - 1) :
              /\ \A f \in F : y < f
              /\ t[i].from.board[y] # emptyRow
              /\ t[i].to.board[y + Cardinality(F)] = t[i].from.board[y]

(* C7: move(dx,dy) for (-1,0), (+1,0), (0,+1).  If the translated piece is *)
(* a valid placement the anchor moves by exactly (dx,dy) and true is       *)
(* returned, otherwise false is returned; nothing else changes either way. *)
C7_MoveFrame ==
  \A t \in {LastTrace} : \A i \in 1..Len(t) :
    t[i].step # "reset" =>
      /\ \A d \in {<<-1, 0>>, <<1, 0>>, <<0, 1>>} :
           \A m \in {tryMove(t[i].from, d[1], d[2])} :
             IF ValidPlacement(t[i].from.board, Shifted(t[i].from.cur, d[1], d[2]))
             THEN m.ok /\ m.g = [t[i].from EXCEPT !.cur.x = @ + d[1], !.cur.y = @ + d[2]]
             ELSE ~m.ok /\ m.g = t[i].from
      /\ t[i].step \in MoveSteps =>
           IF ValidPlacement(t[i].from.board, Shifted(t[i].from.cur, dxOf(t[i].step), 0))
           THEN t[i].to = [t[i].from EXCEPT !.cur.x = @ + dxOf(t[i].step)]
           ELSE t[i].to = t[i].from

(* C7 witness: a move to the side was rejected by locked cells, not by the *)
(* wall, and left the Game as it was.                                      *)
C7_Witness ==
  \E t \in {LastTrace} : \E i \in 1..Len(t) :
    /\ t[i].step \in MoveSteps
    /\ t[i].to = t[i].from
    /\ ~t[i].from.gameOver
    /\ ValidPlacement(emptyBoard, Shifted(t[i].from.cur, dxOf(t[i].step), 0))

(* The pieces C8 is checked on: at every state the placements the next     *)
(* Update can test (the active piece moved one cell left, right or down,   *)
(* and rotated either way at the five kick offsets) and the active piece   *)
(* lifted above the board; and on every board a lock of the recorded game  *)
(* leaves, every kind, rotation and anchor from outside the left and top   *)
(* edges to outside the right and bottom edges.                            *)
ProbePieces ==
  { Shifted(cur, d[1], d[2]) : d \in {<<-1, 0>>, <<1, 0>>, <<0, 1>>, <<0, -2 - cur.y>>} }
  \cup
  { [cur EXCEPT !.rot = r, !.x = @ + o] : r \in {(cur.rot + 1) % 4, (cur.rot + 3) % 4},
                                          o \in -2..2 }
  \cup
  IF free = 0 /\ ~mobile /\ locks # pre.locks
  THEN { [kind |-> k, rot |-> r, x |-> x, y |-> y] :
           k \in 0..(NumKinds - 1), r \in 0..3, x \in -4..boardW, y \in -4..boardH }
  ELSE {}

(* C8: a placement is valid (does not collide) iff each of its 4 cells has *)
(* 0 <= x < W, y < H and (y < 0 or the board cell is empty).               *)
C8_ValidPlacement ==
  \A g \in {G} :
    \A ap \in ProbePieces : (~collides(g, ap)) <=> ValidPlacement(g.board, ap)

(* C8 witness: a piece with a cell above the board, in a column that      *)
(* holds locked cells, is valid inside the walls, and a piece wholly above *)
(* the board is rejected for a cell at x >= W.                             *)
C8_Witness ==
  /\ \E ap \in ProbePieces :
       /\ \E p \in CellsOf(ap) :
            /\ p.y < 0 /\ p.x \in 0..(boardW - 1)
            /\ \E y \in 0..(boardH - 1) : board[y][p.x] # 0
       /\ ~collides(G, ap)
  /\ \E ap \in ProbePieces :
       /\ \A p \in CellsOf(ap) : p.y < 0
       /\ \E p \in CellsOf(ap) : p.x >= boardW
       /\ collides(G, ap)

(* C9: lock-and-respawn is one transition.  After a lock of a piece with   *)
(* no cell above the board, the board is the old board with the 4 cells    *)
(* set to kind+1 and then its full rows cleared, the cleared rows are      *)
(* counted and scored, the active piece is at (3,0) with rotation 0 and    *)
(* the kind that was nextKind, and nextKind is one fresh draw.             *)
C9_LockAndRespawn ==
  \A t \in {LastTrace} : \A i \in 1..Len(t) :
    HasLock(t[i]) =>
      \A lp \in {LockedPiece(t[i])} :
        (\A p \in CellsOf(lp) : p.y >= 0) =>
          \A b1 \in {Placed(t[i].from.board, lp)} :
            /\ \A p \in CellsOf(lp) : b1[p.y][p.x] = t[i].from.cur.kind + 1
            /\ \A cs \in {CellsOf(lp)} : \A y \in 0..(boardH - 1), x \in 0..(boardW - 1) :
                 [x |-> x, y |-> y] \notin cs => b1[y][x] = t[i].from.board[y][x]
            /\ Compacts(b1, t[i].to.board)
            /\ t[i].to.lines = t[i].from.lines + Cardinality(FullRows(b1))
            /\ t[i].to.level = t[i].to.lines \div 10
            /\ (t[i].to.score > t[i].from.score) <=> (FullRows(b1) # {})
            /\ t[i].to.score >= t[i].from.score
            /\ t[i].to.cur = [kind |-> t[i].from.nextKind, rot |-> 0, x |-> 3, y |-> 0]
            /\ t[i].to.spawned = Append(t[i].from.spawned, t[i].from.nextKind)
            /\ Len(t[i].to.draws) = Len(t[i].from.draws) + 1
            /\ SubSeq(t[i].to.draws, 1, Len(t[i].from.draws)) = t[i].from.draws
            /\ t[i].to.nextKind = t[i].to.draws[Len(t[i].to.draws)]

(* C9 witness: a lock cleared a row holding cells of the locked piece and  *)
(* the previewed kind became the active piece.                             *)
C9_Witness ==
  \E t \in {LastTrace} : \E i \in 1..Len(t) :
    /\ HasLock(t[i])
    /\ ~t[i].from.gameOver
    /\ \E p \in CellsOf(LockedPiece(t[i])) :
         p.y \in FullRows(Placed(t[i].from.board, LockedPiece(t[i])))
    /\ t[i].to.cur.kind = t[i].from.nextKind
    /\ t[i].to.cur.kind # t[i].from.cur.kind

(* C10: the gravity step of a tick.  The counter is incremented once; with *)
(* soft drop active, or when the counter reaches max(2, 30 - 2*level), the *)
(* piece moves down one row if that is a valid placement and is locked if  *)
(* not, and the counter is reset to 0; on every other tick the step only   *)
(* increments the counter.                                                 *)
C10_GravityStep ==
  /\ \A l \in 0..MaxLevel : gravityFrames(l) = Max(2, 30 - 2 * l)
  /\ \A t \in {LastTrace} :
       /\ t = <<>> => (pre.gameOver \/ G = pre)
       /\ t # <<>> => (t[Len(t)].step = "gravity" <=> ~pre.gameOver)
       /\ \A i \in 1..Len(t) :
            (t[i].step = "gravity") <=> (~pre.gameOver /\ i = Len(t))
       /\ \A i \in 1..Len(t) :
            t[i].step = "gravity" =>
              LET e    == t[i]
                  c    == e.from.dropFrameCounter + 1
                  T    == Max(2, 30 - 2 * e.from.level)
                  soft == softDropActive(inp, mobile)
                  down == Shifted(e.from.cur, 0, 1)
              IN /\ c <= T
                 /\ IF soft \/ c = T
                    THEN /\ e.to.dropFrameCounter = 0
                         /\ IF ValidPlacement(e.from.board, down)
                            THEN e.to = [e.from EXCEPT !.cur = down, !.dropFrameCounter = 0]
                            ELSE /\ e.to.locks = e.from.locks + 1
                                 /\ e.to = [lockPiece(e.from) EXCEPT !.dropFrameCounter = 0]
                    ELSE e.to = [e.from EXCEPT !.dropFrameCounter = c]

(* C10 witness: at level 1, without soft drop, the counter reached 28, the *)
(* piece could not move down and was locked.                               *)
C10_Witness ==
  \E t \in {LastTrace} :
    /\ Len(t) >= 1
    /\ t[Len(t)].step = "gravity"
    /\ ~softDropActive(inp, mobile)
    /\ t[Len(t)].from.level = 1
    /\ t[Len(t)].from.dropFrameCounter = 27
    /\ ~ValidPlacement(t[Len(t)].from.board, Shifted(t[Len(t)].from.cur, 0, 1))
    /\ HasLock(t[Len(t)])
    /\ t[Len(t)].to.dropFrameCounter = 0

(* --------------------------- C11 .. C20 --------------------------------- *)

(* A Restart-class input, in the claims' terms: Space or Enter just        *)
(* pressed, or a touch that began this frame.                              *)
RestartInput(in) == in.keys \cap {"Space", "Enter"} # {} \/ in.just # {}

(* C11: GameOver is terminal until reset.  No call but reset clears the    *)
(* flag; an Update that starts in GameOver without a Restart input makes   *)
(* no call and leaves the whole Game unchanged; one with a Restart input   *)
(* performs reset() and nothing else.                                      *)
C11_GameOverTerminal ==
  /\ \A t \in {LastTrace} : \A i \in 1..Len(t) :
       (t[i].from.gameOver /\ t[i].step # "reset") => t[i].to.gameOver
  /\ pre.gameOver =>
       IF RestartInput(inp)
       THEN /\ Len(calls) = 1 /\ calls[1].step = "reset" /\ calls[1].from = pre
            /\ G = calls[1].to
            /\ G = NewGame(inp.source)
            /\ ~gameOver
       ELSE /\ calls = <<>>
            /\ G = pre
            /\ gameOver
  /\ (\E i \in 1..Len(calls) : calls[i].step = "reset") => pre.gameOver

(* C11 witness: an Update that started in GameOver ignored a move key. *)
C11_Witness ==
  /\ pre.gameOver /\ "Left" \in inp.keys /\ ~RestartInput(inp)
  /\ gameOver /\ G = pre /\ calls = <<>>

(* reset() is tried with the seeds 1..MaxResetSeed from a topped-out game. *)
MaxResetSeed == 24

(* The state reset() must leave, in the claims' terms. *)
FreshGame(r) ==
  /\ \A y \in 0..(boardH - 1) : \A x \in 0..(boardW - 1) : r.board[y][x] = 0
  /\ r.score = 0 /\ r.lines = 0 /\ r.level = 0 /\ r.dropFrameCounter = 0
  /\ ~r.gameOver
  /\ Len(r.draws) = 2 /\ r.refills = <<1>>
  /\ r.cur = [kind |-> r.draws[1], rot |-> 0, x |-> 3, y |-> 0]
  /\ r.nextKind = r.draws[2]
  /\ r.cur.kind # r.nextKind
  /\ Len(r.bag) = NumKinds - 2
  /\ Cardinality({ r.bag[i] : i \in 1..Len(r.bag) }) = NumKinds - 2
  /\ { r.bag[i] : i \in 1..Len(r.bag) } \cup {r.cur.kind, r.nextKind} = 0..(NumKinds - 1)
  /\ ValidPlacement(r.board, r.cur)

(* C12: reset(), from any state, leaves an empty board, zero score, lines, *)
(* level and gravity counter, GameOver false, a freshly shuffled bag from  *)
(* which exactly two kinds were drawn (the active kind, then next-kind,    *)
(* hence distinct), and the active piece at (3,0) with rotation 0 in a     *)
(* valid placement.  Checked for the sampled seeds in every               *)
(* state, and for every first shuffle the generator can give in the state  *)
(* in which the game has just topped out.                                  *)
C12_ResetFresh ==
  /\ \A seed \in (IF gameOver THEN 1..MaxResetSeed ELSE Seeds) :
       FreshGame(Reset(G, NewSource(seed)))
  /\ (gameOver /\ ~pre.gameOver) => \A rands \in AllRands : FreshGame(Reset(G, <<rands>>))
  /\ \A i \in 1..Len(calls) :
       calls[i].step = "reset" =>
         /\ FreshGame(calls[i].to)
         /\ G = calls[i].to

(* C12 witness: a topped-out game with locked cells and a score was reset. *)
C12_Witness ==
  /\ Len(calls) = 1 /\ calls[1].step = "reset"
  /\ pre.gameOver /\ pre.score > 0 /\ pre.lines > 0 /\ pre.level > 0
  /\ \E y \in 0..(boardH - 1) : \E x \in 0..(boardW - 1) : pre.board[y][x] # 0
  /\ Len(pre.bag) # NumKinds - 2
  /\ FreshGame(G)

(* C13: between two resets the score is non-negative and never decreases,  *)
(* the lines never decrease, and in every state level = lines / 10.        *)
C13_Counters ==
  /\ score >= 0 /\ lines >= 0
  /\ level = lines \div 10
  /\ \A i \in 1..Len(calls) :
       /\ calls[i].to.level = calls[i].to.lines \div 10
       /\ calls[i].to.score >= 0
       /\ calls[i].step # "reset" =>
            /\ calls[i].to.score >= calls[i].from.score
            /\ calls[i].to.lines >= calls[i].from.lines
  /\ (\A i \in 1..Len(calls) : calls[i].step # "reset") =>
       (score >= pre.score /\ lines >= pre.lines)

(* C13 witness: a lock cleared rows, raising score and lines, and the      *)
(* level moved from 0 to 1.                                                *)
C13_Witness ==
  \E i \in 1..Len(calls) :
    /\ HasLock(calls[i])
    /\ calls[i].to.lines > calls[i].from.lines
    /\ calls[i].to.score > calls[i].from.score
    /\ calls[i].from.level = 0 /\ calls[i].to.level = 1

InBoard(p) == p.x \in 0..(boardW - 1) /\ p.y \in 0..(boardH - 1)

(* C14: every board cell holds 0 or a value in 1..7; the board changes     *)
(* only by a completed lock, which writes kind+1 into all 4 cells of the   *)
(* locked piece, all inside [0,W) x [0,H) (followed by the row clear);     *)
(* move, rotate, a gravity step without lock and spawn never write it.     *)
C14_BoardInvariant ==
  /\ DOMAIN board = 0..(boardH - 1)
  /\ \A y \in 0..(boardH - 1) :
       /\ DOMAIN board[y] = 0..(boardW - 1)
       /\ \A x \in 0..(boardW - 1) : board[y][x] \in 0..NumKinds
  /\ \A i \in 1..Len(calls) : \A e \in {calls[i]} :
       IF e.step = "reset" THEN e.to.board = emptyBoard
       ELSE IF HasLock(e)
       THEN \A lp \in {LockedPiece(e)} :
              /\ \A p \in CellsOf(lp) : InBoard(p)
              /\ Cardinality(CellsOf(lp)) = 4
              /\ lp.kind + 1 \in 1..NumKinds
              /\ Compacts(Placed(e.from.board, lp), e.to.board)
       ELSE /\ e.to.board = e.from.board
            /\ e.step \notin DropSteps

(* C14 witness: a lock wrote the 4 cells of an I piece (kind 0, value 1)   *)
(* without completing a row, and an earlier move of the same Update left   *)
(* the board alone.                                                        *)
C14_Witness ==
  \E i \in 1..Len(calls) :
    /\ HasLock(calls[i]) /\ ~calls[i].from.gameOver
    /\ calls[i].from.cur.kind = 0
    /\ calls[i].to.lines = calls[i].from.lines
    /\ \A p \in CellsOf(LockedPiece(calls[i])) :
         calls[i].from.board[p.y][p.x] = 0 /\ calls[i].to.board[p.y][p.x] = 1
    /\ \E j \in 1..(i - 1) : calls[j].step \in MoveSteps \cup RotateSteps

(* C15 (checked on SpecCalls): lockPiece applied to a piece with a cell    *)
(* above the board (y < 0) sets GameOver and performs no row clear, no     *)
(* scoring and no spawn.                                                   *)
C15_OverflowLock ==
  \A i \in 1..Len(calls) : \A e \in {calls[i]} :
    (e.step = "lockPiece" /\ \E p \in CellsOf(e.from.cur) : p.y < 0) =>
      /\ e.to.gameOver
      /\ e.to.score = e.from.score /\ e.to.lines = e.from.lines
      /\ e.to.level = e.from.level
      /\ e.to.cur = e.from.cur /\ e.to.nextKind = e.from.nextKind
      /\ e.to.bag = e.from.bag /\ e.to.draws = e.from.draws
      /\ e.to.spawned = e.from.spawned
      /\ \A y \in 0..(boardH - 1), x \in 0..(boardW - 1) :
           \/ e.to.board[y][x] = e.from.board[y][x]
           \/ /\ [x |-> x, y |-> y] \in CellsOf(e.from.cur)
              /\ e.to.board[y][x] = e.from.cur.kind + 1

(* C15 witness: a piece straddling the top edge, above a stack, was locked *)
(* in a running game and the game is over.                                 *)
C15_Witness ==
  /\ Len(calls) = 1 /\ calls[1].step = "lockPiece"
  /\ ~calls[1].from.gameOver
  /\ \E p \in CellsOf(calls[1].from.cur) : p.y < 0
  /\ \E p \in CellsOf(calls[1].from.cur) : p.y >= 0
  /\ \E x \in 0..(boardW - 1) : calls[1].from.board[boardH - 1][x] # 0
  /\ gameOver /\ cur = calls[1].from.cur

(* the discrete commands a frame carries, as calls *)
Commands(in, mob) ==
  { s \in MoveSteps \cup RotateSteps \cup DropSteps :
      \/ s = "keyLeft" /\ "Left" \in in.keys
      \/ s = "keyRight" /\ "Right" \in in.keys
      \/ s = "keyZ" /\ "Z" \in in.keys
      \/ s = "keyX" /\ "X" \in in.keys
      \/ s = "keySpace" /\ "Space" \in in.keys
      \/ mob /\ s = "touchLeft" /\ 0 \in in.just
      \/ mob /\ s = "touchRight" /\ 1 \in in.just
      \/ mob /\ s = "touchRotate" /\ 2 \in in.just
      \/ mob /\ s = "touchDrop" /\ 3 \in in.just }

(* C16: within one tick every discrete command takes effect before the     *)
(* gravity/soft-drop step, each call acts on the state the call before it   *)
(* left, and a lock's row clear and respawn are complete before the next    *)
(* call: after a hard drop the gravity step acts on the new piece.          *)
C16_TickOrder ==
  /\ calls = <<>> => (pre.gameOver \/ G = pre)
  /\ (~pre.gameOver /\ calls # <<>>) =>
    /\ Len(calls) = Cardinality(Commands(inp, mobile)) + 1
    /\ { calls[i].step : i \in 1..(Len(calls) - 1) } = Commands(inp, mobile)
    /\ calls[Len(calls)].step = "gravity"
    /\ calls[1].from = pre
    /\ calls[Len(calls)].to = G
    /\ \A i \in 1..(Len(calls) - 1) :
         /\ calls[i + 1].from = calls[i].to
         /\ HasLock(calls[i]) =>
              /\ calls[i + 1].from.cur =
                   [kind |-> calls[i].from.nextKind, rot |-> 0, x |-> 3, y |-> 0]
              /\ FullRows(calls[i + 1].from.board) = {}
              /\ Compacts(Placed(calls[i].from.board, LockedPiece(calls[i])),
                          calls[i + 1].from.board)
    /\ \A e \in {calls[Len(calls)]} :
         \/ e.to.cur = e.from.cur
         \/ e.to.cur = Shifted(e.from.cur, 0, 1)
         \/ HasLock(e)

(* C16 witness: a hard drop with soft drop held; the gravity step of the   *)
(* same tick moved the newly spawned piece down one row.                   *)
C16_Witness ==
  /\ ~pre.gameOver /\ Len(calls) >= 2
  /\ calls[Len(calls) - 1].step \in DropSteps
  /\ calls[Len(calls)].from.cur = [kind |-> pre.nextKind, rot |-> 0, x |-> 3, y |-> 0]
  /\ cur = [kind |-> pre.nextKind, rot |-> 0, x |-> 3, y |-> 1]
  /\ ~gameOver

(* C17 (checked on SpecCalls): clearFullRows is idempotent.  A second call *)
(* with no placement in between clears 0 rows and leaves the grid, score,  *)
(* lines and level as the first call left them.                            *)
C17_ClearIdempotent ==
  (Len(calls) = 2 /\ calls[1].step = "clearLines" /\ calls[2].step = "clearLines") =>
    /\ calls[2].from = calls[1].to
    /\ FullRows(calls[1].to.board) = {}
    /\ calls[2].to.board = calls[1].to.board
    /\ calls[2].to.lines = calls[1].to.lines
    /\ calls[2].to.score = calls[1].to.score
    /\ calls[2].to.level = calls[1].to.level
    /\ calls[2].to = calls[1].to
    /\ calls[1].to.lines = calls[1].from.lines + Cardinality(FullRows(calls[1].from.board))

(* C17 witness: the first call cleared three rows under locked cells that  *)
(* stay on the board, the second call changed nothing.                     *)
C17_Witness ==
  /\ Len(calls) = 2 /\ calls[1].step = "clearLines" /\ calls[2].step = "clearLines"
  /\ calls[1].to.lines = calls[1].from.lines + 3
  /\ calls[1].to.score > calls[1].from.score
  /\ calls[1].to.board # emptyBoard
  /\ calls[1].to.board # calls[1].from.board
  /\ board = calls[1].to.board /\ lines = calls[1].to.lines /\ score = calls[1].to.score

(* C18: O-piece rotation never kicks.  For an active O piece (kind 1) in a *)
(* valid placement, rotate in either direction succeeds with x-offset 0:   *)
(* the anchor and the occupied cells are unchanged and only the rotation   *)
(* index advances by dir mod 4.                                            *)
C18_ORotationNoKick ==
  /\ \A r1, r2 \in 0..3 :
       CellsOf([kind |-> 1, rot |-> r1, x |-> 0, y |-> 0]) =
       CellsOf([kind |-> 1, rot |-> r2, x |-> 0, y |-> 0])
  /\ (cur.kind = 1 /\ ValidPlacement(board, cur)) =>
       \A dir \in {-1, 1} : \A r \in {tryRotate(G, dir)} :
         /\ r.ok
         /\ r.g = [G EXCEPT !.cur.rot = (cur.rot + dir + 4) % 4]
         /\ CellsOf(r.g.cur) = CellsOf(cur)
  /\ \A i \in 1..Len(calls) : \A e \in {calls[i]} :
       (e.step \in RotateSteps /\ e.from.cur.kind = 1
          /\ ValidPlacement(e.from.board, e.from.cur)) =>
         /\ e.to = [e.from EXCEPT !.cur.rot = (e.from.cur.rot + dirOf(e.step) + 4) % 4]
         /\ CellsOf(e.to.cur) = CellsOf(e.from.cur)

(* C18 witness: an O piece lying against a wall was rotated in place. *)
C18_Witness ==
  \E i \in 1..Len(calls) :
    /\ calls[i].step \in RotateSteps
    /\ calls[i].from.cur.kind = 1
    /\ ValidPlacement(calls[i].from.board, calls[i].from.cur)
    /\ ~ValidPlacement(calls[i].from.board, Shifted(calls[i].from.cur, -1, 0))
    /\ calls[i].to.cur.rot # calls[i].from.cur.rot
    /\ calls[i].to.cur.x = calls[i].from.cur.x

(* the number of nonzero cells of a board *)
Filled(b) ==
  Cardinality({ c \in (0..(boardW - 1)) \X (0..(boardH - 1)) : b[c[2]][c[1]] # 0 })

(* C19: lockPiece never overwrites a locked cell.  Every call of lockPiece *)
(* (from a hard drop, gravity or soft drop, also later in the same Update  *)
(* after another lock) writes only cells that were empty, so the number of *)
(* nonzero cells grows by exactly 4 before the row clear.                  *)
C19_LockWritesEmptyCells ==
  \A i \in 1..Len(calls) : \A e \in {calls[i]} :
    HasLock(e) =>
      \A lp \in {LockedPiece(e)} :
        /\ \A p \in CellsOf(lp) : InBoard(p) => e.from.board[p.y][p.x] = 0
        /\ Filled(Placed(e.from.board, lp)) = Filled(e.from.board) + 4

(* C20: while GameOver is false the active piece is a valid placement,     *)
(* after every spawn, move, rotate, hard drop and tick: its 4 cells are    *)
(* inside [0,W) x [0,H) and none coincides with a nonzero board cell.      *)
C20_ActivePieceValid ==
  /\ ~gameOver => \A p \in CellsOf(cur) : InBoard(p) /\ board[p.y][p.x] = 0
  /\ \A i \in 1..Len(calls) : \A e \in {calls[i]} :
       ~e.to.gameOver =>
         /\ Cardinality(CellsOf(e.to.cur)) = 4
         /\ \A p \in CellsOf(e.to.cur) : InBoard(p) /\ e.to.board[p.y][p.x] = 0

(* C20 witness: after a move or rotation the piece of a running game lies  *)
(* on locked cells with the left wall or locked cells beside it.           *)
C20_Witness ==
  /\ ~gameOver /\ cur.y > 0
  /\ \E i \in 1..Len(calls) : calls[i].step \in MoveSteps \cup RotateSteps
  /\ \A p \in CellsOf(cur) : InBoard(p) /\ board[p.y][p.x] = 0
  /\ \E p \in CellsOf(cur) : p.y + 1 < boardH /\ board[p.y + 1][p.x] # 0
  /\ ~ValidPlacement(board, Shifted(cur, -1, 0))

SamePiece(e) == e.step # "reset" /\ Len(e.to.spawned) = Len(e.from.spawned)

(* C21: the anchor y of the active piece is never negative and never       *)
(* decreases while the piece lives: a spawn sets y = 0, side moves and     *)
(* rotations (kicks included) keep y, the other steps only increase it.    *)
(* So no cell of the active piece has y < 0, every lock completes and is   *)
(* followed by a spawn (the overflow return of lockPiece is never taken),  *)
(* and GameOver becomes true only in a call that spawned a colliding piece.*)
C21_AnchorNeverRises ==
  /\ cur.y >= 0 /\ \A p \in CellsOf(cur) : p.y >= 0
  /\ \A i \in 1..Len(calls) : \A e \in {calls[i]} :
       /\ e.to.cur.y >= 0 /\ \A p \in CellsOf(e.to.cur) : p.y >= 0
       /\ e.step # "reset" =>
            /\ SamePiece(e) => e.to.cur.y >= e.from.cur.y
            /\ ~SamePiece(e) => e.to.cur.y = 0
            /\ e.step \in MoveSteps \cup RotateSteps =>
                 SamePiece(e) /\ e.to.cur.y = e.from.cur.y
            /\ e.to.locks - e.from.locks = Len(e.to.spawned) - Len(e.from.spawned)
            /\ (~e.from.gameOver /\ e.to.gameOver) =>
                 /\ Len(e.to.spawned) > Len(e.from.spawned)
                 /\ e.to.cur.y = 0
                 /\ ~ValidPlacement(e.to.board, e.to.cur)

(* C21 witness: a piece descends from where it stands, locks, and          *)
(* the spawn that follows collides at y = 0 and sets GameOver.             *)
C21_Witness ==
  \E j \in 1..Len(calls) :
    /\ ~calls[j].from.gameOver /\ calls[j].to.gameOver
    /\ calls[j].from.cur.y >= 0
    /\ RestRow(calls[j].from.board, calls[j].from.cur) > calls[j].from.cur.y
    /\ Len(calls[j].to.spawned) = Len(calls[j].from.spawned) + 1
    /\ calls[j].to.locks = calls[j].from.locks + 1
    /\ calls[j].to.cur.y = 0

(* C22: every piece eventually locks.  With Update called for ever and any *)
(* input on each tick, from a state with GameOver false the active piece   *)
(* is eventually locked or GameOver is reached: side moves and rotations   *)
(* cannot postpone the lock for ever.                                      *)
C22_PieceEventuallyLocks ==
  LiveRunning ~> (locks > pre.locks \/ gameOver)

(* C22 witness: the fourth piece, which spawned above three dropped ones,  *)
(* was pushed to the left wall, has locked on the floor there, and the     *)
(* next piece is in play.                                                  *)
C22_Witness ==
  /\ pre.locks > 0 /\ locks = pre.locks + 1 /\ ~gameOver
  /\ pre.board[boardH - 1][0] = 0 /\ board[boardH - 1][0] # 0
  /\ Len(spawned) = locks + 1

(* C23: no full row survives a tick.  At the end of every Update, and      *)
(* after every hard drop and every other call inside it, no row of the     *)
(* board has all W cells nonzero: each lock that writes the board is       *)
(* followed by the row clear before control returns.                       *)
C23_NoFullRow ==
  /\ FullRows(board) = {}
  /\ \A i \in 1..Len(calls) :
       /\ FullRows(calls[i].from.board) = {}
       /\ FullRows(calls[i].to.board) = {}

(* C23 witness: a hard drop wrote a piece that completed several rows at   *)
(* once, and the board after the call holds no full row.                   *)
C23_Witness ==
  \E i \in 1..Len(calls) :
    /\ calls[i].step \in DropSteps
    /\ HasLock(calls[i])
    /\ Cardinality(FullRows(Placed(calls[i].from.board, LockedPiece(calls[i])))) >= 2
    /\ FullRows(calls[i].to.board) = {}
    /\ FullRows(board) = {}

(* C24: gravity counter bound.  At the end of every Update                 *)
(* 0 <= dropFrameCounter < max(2, 30 - 2*level) for the current level.  A  *)
(* level change happens only in a call that locks, and that call leaves    *)
(* the counter at 0.  hardDrop leaves the counter at 0, so the gravity     *)
(* step of a tick with a hard drop only counts (the tick ends with counter *)
(* 1 and the game the last hard drop left) unless soft drop is active,     *)
(* when the tick ends with counter 0.                                      *)
C24_CounterBound ==
  /\ 0 <= dropFrameCounter /\ dropFrameCounter < Max(2, 30 - 2 * level)
  /\ \A i \in 1..Len(calls) : \A e \in {calls[i]} :
       e.step # "reset" =>
         /\ e.to.level # e.from.level =>
              e.to.locks > e.from.locks /\ e.to.dropFrameCounter = 0
         /\ e.step \in DropSteps => e.to.dropFrameCounter = 0
         /\ (e.step = "gravity" /\ \E j \in 1..(i - 1) : calls[j].step \in DropSteps) =>
              /\ e.from.dropFrameCounter = 0
              /\ IF softDropActive(inp, mobile)
                 THEN e.to.dropFrameCounter = 0
                 ELSE e.to = [e.from EXCEPT !.dropFrameCounter = 1]
  /\ (calls # <<>> /\ level # pre.level /\ calls[1].step # "reset") =>
       \E i \in 1..Len(calls) :
         /\ calls[i].to.level = level /\ calls[i].from.level = pre.level
         /\ calls[i].to.dropFrameCounter = 0

(* C24 witness: a hard drop in the tick at which the timed gravity step    *)
(* was due; the tick ends with the piece locked once and the counter at 1. *)
C24_Witness ==
  /\ calls # <<>> /\ ~pre.gameOver
  /\ pre.dropFrameCounter + 1 = Max(2, 30 - 2 * pre.level)
  /\ \E i \in 1..Len(calls) : calls[i].step \in DropSteps
  /\ ~softDropActive(inp, mobile)
  /\ locks = pre.locks + 1
  /\ dropFrameCounter = 1

====
